---- MODULE Spec2Model ----
(***************************************************************************)
(* A model of jschannel.ts: the process-wide channel registry and          *)
(* transaction router, the channels built on them, the transactions of     *)
(* inbound requests, the ready handshake and the postMessage transport     *)
(* between windows.                                                        *)
(*                                                                         *)
(* JavaScript values are records tagged by t.  A method name on the wire   *)
(* is the sequence of its '::'-separated parts, so that scopeMethod (join) *)
(* and s_onMessage (split) are computed, not assumed inverse.              *)
(***************************************************************************)
EXTENDS Integers, Sequences, FiniteSets, TLC

\* ---------------------------------------------------------------- bounds
MaxChans == 3        \* channels built in one run
MaxCalls == 1        \* accepted call()s in one run
MaxNotifies == 1     \* notify()s in one run
MaxSeed == 1         \* s_curTranId starts in 0..MaxSeed
MaxDestroys == 1     \* channels destroyed in one run
MaxRaw == 2          \* raw messages an untrusted peer posts in one run

\* ------------------------------------------------------- JavaScript values
Undefined == [t |-> "undefined"]
Null == [t |-> "null"]
Str(s) == [t |-> "string", s |-> s]
Num(n) == [t |-> "number", n |-> n]
Arr(a) == [t |-> "array", a |-> a]
Obj(f) == [t |-> "object", f |-> f]
Fn(name) == [t |-> "function", name |-> name]
ErrorObj(name) == [t |-> "Error", name |-> name]

\* typeof v
TypeOf(v) ==
  CASE v.t \in {"null", "array", "object", "Error"} -> "object"
    [] OTHER -> v.t

\* ToBoolean(v), as in `if (v)` and `!v`
Truthy(v) ==
  CASE v.t \in {"undefined", "null"} -> FALSE
    [] v.t = "string" -> v # Str("")
    [] v.t = "number" -> v.n # 0
    [] OTHER -> TRUE

\* v[k] for a value that has properties (not null, not undefined)
Get(v, k) ==
  IF v.t = "object" /\ k \in DOMAIN v.f THEN v.f[k] ELSE Undefined

\* JSON.parse(JSON.stringify(v)): what of v survives serialisation
RECURSIVE JsonRound(_)
JsonRound(v) ==
  CASE v.t = "array" ->
         Arr([i \in DOMAIN v.a |->
                IF v.a[i].t \in {"undefined", "function"} THEN Null
                ELSE JsonRound(v.a[i])])
    [] v.t = "object" ->
         LET keep == {k \in DOMAIN v.f : v.f[k].t \notin {"undefined", "function"}}
         IN  Obj([k \in keep |-> JsonRound(v.f[k])])
    [] v.t = "Error" -> Obj(<<>>)
    [] v.t = "function" -> Undefined
    [] OTHER -> v

\* JSON.stringify(v) for a v it yields a string for: the string whose text is v's JSON
JsonText(v) == [t |-> "string", json |-> JsonRound(v)]
\* v.toString() of a function: its source text
ToStringText(v) == [t |-> "string", tostr |-> v]

\* ------------------------------------------------------------ the windows
\* D is a window of the same origin as B
Win == {"A", "B", "C", "D"}
OriginOf(w) ==
  CASE w = "A" -> "http://a.com" [] w \in {"B", "D"} -> "http://b.com"
    [] OTHER -> "http://c.com"
Origins == {"*", "http://a.com", "http://b.com", "http://c.com"}
NullOrigin == "null"
\* the property keys s_boundChans is read and written with
OriginKeys == Origins
ScopeKeys == {"", "a", "undefined"}
Chans == 1..MaxChans
\* the windows whose code issues calls and notifies, and those whose code binds handlers
Callers == {"A"}
Callees == {"B"}

\* ---------------------------------------------------------------- messages
NoId == -1
NoMsg ==
  [id |-> NoId, method |-> <<>>, params |-> Undefined, callbacks |-> <<>>,
   callback |-> "", error |-> Undefined, message |-> Undefined, result |-> Undefined]
\* JSON.parse(JSON.stringify(msg)) of a message object
Wire(msg) ==
  [msg EXCEPT !.params = JsonRound(@), !.error = JsonRound(@),
              !.message = JsonRound(@), !.result = JsonRound(@)]
\* `if (m.id)`: the id is there and not 0
IdTruthy(id) == id # NoId /\ id # 0

VARIABLES
  s_curTranId,   \* per window: the next transaction id
  s_boundChans,  \* per window: origin -> scope -> array of {win, handler}
  s_transIds,    \* per window: id -> the channel whose onMessage it routes to
  listening,     \* per window: s_onMessage is attached to 'message'
  nChans,        \* channels built so far
  cfg,           \* per channel: its cfg object (origin is set to null by destroy)
  regTbl,        \* per channel: method -> handler
  outTbl,        \* per channel: id -> {callbacks, error, success}
  inTbl,         \* per channel: ids of the open inbound transactions
  ready,         \* per channel
  pendingQueue,  \* per channel
  timers,        \* pending transaction timeouts, [chan, id]
  pingTimer,     \* channels whose __ready ping timer is pending
  transObjs,     \* the transaction objects handed to request handlers
  inbox,         \* per window: message events not yet dispatched
  log,           \* per channel: what it posted and which user functions it ran
  nCalls,        \* accepted calls so far
  nNotifies,     \* notifies so far
  nRaw,          \* raw messages posted so far
  raised         \* the exception the last step ended with, "" if none

vars ==
  <<s_curTranId, s_boundChans, s_transIds, listening, nChans, cfg, regTbl, outTbl,
    inTbl, ready, pendingQueue, timers, pingTimer, transObjs, inbox, log, nCalls,
    nNotifies, nRaw, raised>>

\* ------------------------------------------------------------------ events
Ev(ev, id, msg, a, b) == [ev |-> ev, id |-> id, msg |-> msg, a |-> a, b |-> b]
PostEv(msg) == Ev("post", msg.id, Wire(msg), Undefined, Undefined)

\* -------------------------------------------------------------- the registry
NoCfg == [home |-> "A", window |-> "A", origin |-> NullOrigin, scope |-> <<>>, type |-> ""]
\* (typeof cfg.scope === 'string') ? cfg.scope : ''
ScopeKey(c) == IF c.scope = <<>> THEN "" ELSE c.scope[1]

\* hasWin(arr)
hasWin(arr, win) == \E i \in DOMAIN arr : arr[i].win = win

\* the test of s_addBoundChan: does she exist?
s_exists(tbl, win, origin, scope) ==
  IF origin = "*"
  THEN \E k \in OriginKeys \ {"*"} : hasWin(tbl[k][scope], win)
  ELSE \/ hasWin(tbl["*"][scope], win)
       \/ hasWin(tbl[origin][scope], win)

\* s_addBoundChan, when it does not throw
s_addBoundChan(tbl, win, origin, scope, handler) ==
  [tbl EXCEPT ![origin][scope] = Append(@, [win |-> win, handler |-> handler])]

\* s_removeBoundChan, when s_boundChans[origin][scope] is there
s_removeBoundChan(tbl, win, origin, scope) ==
  [tbl EXCEPT ![origin][scope] = SelectSeq(@, LAMBDA item : item.win # win)]

EmptyRegistry == [o \in OriginKeys |-> [s \in ScopeKeys |-> <<>>]]

\* -------------------------------------------------------------------- Init
NoRegs == [m \in {} |-> "none"]
InitWith(seeds) ==
  /\ s_curTranId \in [Win -> seeds]
  /\ s_boundChans = [w \in Win |-> EmptyRegistry]
  /\ s_transIds = [w \in Win |-> <<>>]
  /\ listening = [w \in Win |-> TRUE]
  /\ nChans = 0
  /\ cfg = [c \in Chans |-> NoCfg]
  /\ regTbl = [c \in Chans |-> NoRegs]
  /\ outTbl = [c \in Chans |-> <<>>]
  /\ inTbl = [c \in Chans |-> {}]
  /\ ready = [c \in Chans |-> FALSE]
  /\ pendingQueue = [c \in Chans |-> <<>>]
  /\ timers = {}
  /\ pingTimer = {}
  /\ transObjs = <<>>
  /\ inbox = [w \in Win |-> <<>>]
  /\ log = [c \in Chans |-> <<>>]
  /\ nCalls = 0
  /\ nNotifies = 0
  /\ nRaw = 0
  /\ raised = ""

\* ------------------------------------------------------------------- build
\* Channel.build(cfg) in window w; c is the index of the object it returns
Build(w, k) ==
  /\ nChans < MaxChans
  /\ k.home = w
  /\ LET c == nChans + 1 IN
     IF k.window = w
     THEN /\ raised' = "target window is same as present window"
          /\ UNCHANGED <<s_curTranId, s_boundChans, s_transIds, listening, nChans, cfg,
                         regTbl, outTbl, inTbl, ready, pendingQueue, timers, pingTimer,
                         transObjs, inbox, log, nCalls, nNotifies, nRaw>>
     ELSE IF s_exists(s_boundChans[w], k.window, k.origin, ScopeKey(k))
     THEN /\ raised' = "A channel is already bound"
          /\ UNCHANGED <<s_curTranId, s_boundChans, s_transIds, listening, nChans, cfg,
                         regTbl, outTbl, inTbl, ready, pendingQueue, timers, pingTimer,
                         transObjs, inbox, log, nCalls, nNotifies, nRaw>>
     ELSE /\ s_boundChans' =
               [s_boundChans EXCEPT
                  ![w] = s_addBoundChan(@, k.window, k.origin, ScopeKey(k), c)]
          /\ nChans' = c
          /\ cfg' = [cfg EXCEPT ![c] = k]
          /\ regTbl' = [regTbl EXCEPT ![c] = (<<"__ready">> :> "onReady")]
          /\ pingTimer' = IF k.type = "child" THEN pingTimer \cup {c} ELSE pingTimer
          /\ raised' = ""
          /\ UNCHANGED <<s_curTranId, s_transIds, listening, outTbl, inTbl, ready,
                         pendingQueue, timers, transObjs, inbox, log, nCalls, nNotifies,
                         nRaw>>

\* ----------------------------------------------------------------- destroy
\* obj.destroy() of channel c
Destroy(c) ==
  /\ c \in 1..nChans
  /\ cfg[c].origin = NullOrigin \/ Cardinality({d \in 1..nChans : cfg[d].origin = NullOrigin}) < MaxDestroys
  /\ LET k == cfg[c]
         w == k.home IN
     IF k.origin \notin OriginKeys \/ s_boundChans[w][k.origin][ScopeKey(k)] = <<>>
     THEN \* s_boundChans[origin] or s_boundChans[origin][scope] is undefined
          /\ raised' = "TypeError"
          /\ UNCHANGED <<s_curTranId, s_boundChans, s_transIds, listening, nChans, cfg,
                         regTbl, outTbl, inTbl, ready, pendingQueue, timers, pingTimer,
                         transObjs, inbox, log, nCalls, nNotifies, nRaw>>
     ELSE /\ s_boundChans' =
               [s_boundChans EXCEPT
                  ![w] = s_removeBoundChan(@, k.window, k.origin, ScopeKey(k))]
          /\ listening' = [listening EXCEPT ![w] = FALSE]
          /\ ready' = [ready EXCEPT ![c] = FALSE]
          /\ regTbl' = [regTbl EXCEPT ![c] = NoRegs]
          /\ inTbl' = [inTbl EXCEPT ![c] = {}]
          /\ outTbl' = [outTbl EXCEPT ![c] = <<>>]
          /\ cfg' = [cfg EXCEPT ![c].origin = NullOrigin]
          /\ pendingQueue' = [pendingQueue EXCEPT ![c] = <<>>]
          /\ log' = [log EXCEPT ![c] = Append(@, Ev("destroy", NoId, NoMsg, Undefined, Undefined))]
          /\ raised' = ""
          /\ UNCHANGED <<s_curTranId, s_transIds, nChans, timers, pingTimer, transObjs,
                         inbox, nCalls, nNotifies, nRaw>>

\* ------------------------------------------------- bind, unbind, lookups
\* regTbl[method], "none" when there is no such property
\* regTbl, outTbl's callbacks and the other tables are plain objects ({}): a key they
\* do not own is looked up on Object.prototype.  InheritedFns are functions every
\* object inherits, InheritedObjs inherited values that are truthy and not callable.
InheritedFns == {"toString"}
InheritedObjs == {"__proto__"}
\* regTbl[method]
RegGet(reg, method) ==
  IF method \in DOMAIN reg THEN reg[method]
  ELSE IF Len(method) = 1 /\ method[1] \in InheritedFns THEN "builtin"
  ELSE IF Len(method) = 1 /\ method[1] \in InheritedObjs THEN "object"
  ELSE "none"
\* delete regTbl[method]
RegDel(reg, method) == [k \in DOMAIN reg \ {method} |-> reg[k]]
\* delete tbl[id]
TblDel(tbl, id) == [k \in DOMAIN tbl \ {id} |-> tbl[k]]

\* scopeMethod(m): the parts of [cfg.scope, m].join("::")
scopeMethod(c, m) ==
  IF cfg[c].scope # <<>> /\ cfg[c].scope[1] # "" THEN <<cfg[c].scope[1]>> \o m ELSE m

UserMethods == {<<"m">>}

\* obj.bind(method, cb) with a user handler cb
Bind(c, method) ==
  /\ c \in 1..nChans
  /\ cfg[c].home \in Callees
  /\ IF RegGet(regTbl[c], method) # "none"
     THEN raised' = "method is already bound" /\ UNCHANGED regTbl
     ELSE raised' = "" /\ regTbl' = [regTbl EXCEPT ![c] = (method :> "user") @@ @]
  /\ UNCHANGED <<s_curTranId, s_boundChans, s_transIds, listening, nChans, cfg, outTbl,
                 inTbl, ready, pendingQueue, timers, pingTimer, transObjs, inbox, log,
                 nCalls, nNotifies, nRaw>>

\* obj.unbind(method)
Unbind(c, method) ==
  /\ c \in 1..nChans
  /\ RegGet(regTbl[c], method) # "none"
  /\ regTbl' = [regTbl EXCEPT ![c] = RegDel(@, method)]
  /\ raised' = ""
  /\ UNCHANGED <<s_curTranId, s_boundChans, s_transIds, listening, nChans, cfg, outTbl,
                 inTbl, ready, pendingQueue, timers, pingTimer, transObjs, inbox, log,
                 nCalls, nNotifies, nRaw>>

\* ------------------------------------------- what one step of a channel works on
\* The closure state of channel c and the process-wide router of its window, with
\* the messages the step hands to the transport (posts), the events it adds to
\* the log (evs), the transaction objects it hands to user code (trans) and the
\* exception it ends with (raised).
Eff(c) ==
  [inTbl |-> inTbl[c], outTbl |-> outTbl[c], transIds |-> s_transIds[cfg[c].home],
   reg |-> regTbl[c], ready |-> ready[c], pq |-> pendingQueue[c],
   posts |-> <<>>, evs |-> <<>>, trans |-> <<>>, raised |-> ""]

\* a postMessage that posts whether the channel is ready or not
postMessageNow(e, c, msg, force) ==
  IF cfg[c].origin = NullOrigin
  THEN [e EXCEPT !.raised = "SyntaxError"]
  ELSE [e EXCEPT !.posts = Append(@, msg), !.evs = Append(@, PostEv(msg))]

\* postMessage(msg, force)
postMessage(e, c, msg, force) ==
  IF ~force /\ ~e.ready
  THEN [e EXCEPT !.pq = Append(@, msg)]
  ELSE IF cfg[c].origin = NullOrigin
  THEN \* cfg.window.postMessage(text, null): not a valid target origin
       [e EXCEPT !.raised = "SyntaxError"]
  ELSE [e EXCEPT !.posts = Append(@, msg), !.evs = Append(@, PostEv(msg))]

\* --------------------------------------------------------- transactions
\* A transaction object t is what createTransaction(id, origin, callbacks) returns;
\* ix numbers the objects handed to user code (0: never handed out).
\* a complete(v) that does not look the id up in inTbl
t_completeUnchecked(e, c, t, v) ==
  postMessage([e EXCEPT !.inTbl = @ \ {t.id},
                        !.evs = Append(@, Ev("t.complete", t.id, NoMsg, Num(t.ix), v))],
              c, [NoMsg EXCEPT !.id = t.id, !.result = v], FALSE)

\* trans.complete(v)
t_complete(e, c, t, v) ==
  IF t.id \notin e.inTbl
  THEN [e EXCEPT !.raised = "complete called for nonexistent message"]
  ELSE postMessage([e EXCEPT !.inTbl = @ \ {t.id},
                             !.evs = Append(@, Ev("t.complete", t.id, NoMsg, Num(t.ix), v))],
                   c, [NoMsg EXCEPT !.id = t.id, !.result = v], FALSE)

\* trans.error(error, message)
t_error(e, c, t, error, message) ==
  IF t.id \notin e.inTbl
  THEN [e EXCEPT !.raised = "error called for nonexistent message"]
  ELSE postMessage([e EXCEPT !.inTbl = @ \ {t.id},
                             !.evs = Append(@, Ev("t.error", t.id, NoMsg, Num(t.ix), error))],
                   c, [NoMsg EXCEPT !.id = t.id, !.error = error, !.message = message], FALSE)

\* trans.invoke(cbName, v)
t_invoke(e, c, t, cbName, v) ==
  IF t.id \notin e.inTbl
  THEN [e EXCEPT !.raised = "attempting to invoke a callback of a nonexistent transaction"]
  ELSE IF \A i \in DOMAIN t.callbacks : t.callbacks[i] # cbName
  THEN [e EXCEPT !.raised = "request supports no such callback"]
  ELSE postMessage(e, c, [NoMsg EXCEPT !.id = t.id, !.callback = cbName, !.params = v], FALSE)

\* ------------------------------------------------------------ the handshake
Reverse(s) == [i \in 1..Len(s) |-> s[Len(s) + 1 - i]]
\* posting in the order of queueing
FlushOrderFifo(pq) == pq
\* the order `while (pendingQueue.length) postMessage(pendingQueue.pop())` posts in
FlushOrder(pq) == Reverse(pq)

RECURSIVE postAll(_, _, _)
postAll(e, c, msgs) ==
  IF msgs = <<>> \/ e.raised # "" THEN e
  ELSE postAll(postMessage(e, c, Head(msgs), FALSE), c, Tail(msgs))

ReadyMsg(c, type) ==
  [NoMsg EXCEPT !.method = scopeMethod(c, <<"__ready">>), !.params = Str(type)]

\* onReady: if (type === 'ping') obj.notify({method: '__ready', params: 'pong'})
Ponged(e, c, type) ==
  IF type = Str("ping") THEN postMessage(e, c, ReadyMsg(c, "pong"), FALSE) ELSE e
\* onReady: flush queue
Flushed(e, c) ==
  IF e.raised # "" THEN e ELSE postAll([e EXCEPT !.pq = <<>>], c, FlushOrder(e.pq))
\* onReady: invoke onReady observer
Observed(e) ==
  IF e.raised # "" THEN e
  ELSE [e EXCEPT !.evs = Append(@, Ev("onReady", NoId, NoMsg, Undefined, Undefined))]

\* onReady(trans, type), the handler bound to '__ready'
onReady(e, c, type) ==
  IF e.ready
  THEN [e EXCEPT !.raised = "received ready message while in ready state"]
  ELSE Observed(Flushed(Ponged([e EXCEPT !.reg = RegDel(@, <<"__ready">>), !.ready = TRUE],
                               c, type), c))

\* ------------------------------------------------------ request handlers
IsCallable(v) == v.t = "function"
\* Array.prototype.findIndex(predicate) throws a TypeError unless predicate is callable
findIndexThrows(predicate) == ~IsCallable(predicate)
Stub == Fn("stub")

\* the callback stubs of lines 449-468: for each path of m.callbacks, walk its
\* items (pathItems.findIndex(j) is given the item, a string) and install a stub
InstallStubs(m) ==
  IF m.callbacks = <<>>
  THEN [threw |-> FALSE, params |-> m.params]
  ELSE IF \E i \in DOMAIN m.callbacks : findIndexThrows(Str(m.callbacks[i]))
  THEN [threw |-> TRUE, params |-> m.params]
  ELSE IF m.params.t # "object"
  THEN [threw |-> TRUE, params |-> m.params]
  ELSE [threw |-> FALSE,
        params |-> Obj([k \in DOMAIN m.params.f \cup {m.callbacks[i] : i \in DOMAIN m.callbacks} |->
                          IF \E i \in DOMAIN m.callbacks : m.callbacks[i] = k
                          THEN Stub ELSE m.params.f[k]])]

\* the catch block of lines 473-512: the (error, message) the raised value e is
\* sent as; threw when the block itself raises
\* e && s_isArray(e) && e.length === 2
isPairNever(e) == FALSE
isPair(e) == e.t = "array" /\ Len(e.a) = 2
Normalize(e) ==
  LET esc == [threw |-> TRUE, error |-> Undefined, message |-> Undefined]
      ok(er, msg) == [threw |-> FALSE, error |-> er, message |-> msg]
      \* message is *still* null: JSON.stringify(x), or x.toString()
      harder(er, x) ==
        CASE x.t = "undefined" -> esc
          [] x.t = "function" -> ok(er, ToStringText(x))
          [] OTHER -> ok(er, JsonText(x))
      rt == Str("runtime_error")
  IN  IF TypeOf(e) = "string" THEN ok(rt, e)
      ELSE IF TypeOf(e) = "object"
      THEN IF isPair(e)
           THEN IF e.a[2] = Null THEN harder(e.a[1], e) ELSE ok(e.a[1], e.a[2])
           ELSE IF e.t = "null" THEN esc
           ELSE IF TypeOf(Get(e, "error")) = "string"
           THEN IF ~Truthy(Get(e, "message")) THEN ok(Get(e, "error"), Str(""))
                ELSE IF TypeOf(Get(e, "message")) = "string"
                THEN ok(Get(e, "error"), Get(e, "message"))
                ELSE harder(Get(e, "error"), Get(e, "message"))
           ELSE harder(rt, e)
      ELSE harder(rt, e)

\* What the user's handler of a method does when it is invoked: it returns v,
\* calls delayReturn(true) and returns, raises v, or calls params.onProgress(v)
\* and returns.
V1 == Str("v1")
P1 == Str("p1")
Raisable ==
  {Str("boom"), Arr(<<Str("bad_input"), Str("explain")>>), Arr(<<Str("bad_input"), Null>>),
   Arr(<<Str("x")>>), Obj("error" :> Str("E") @@ "message" :> Str("M")),
   Obj("error" :> Str("E")), Obj("error" :> Str("E") @@ "message" :> Num(5)),
   Obj("message" :> Str("M")), ErrorObj("Error"), Num(7), Null, Undefined}
Beh(k, v) == [k |-> k, v |-> v]
NoBeh == Beh("none", Undefined)
BasicBehs ==
  {Beh("return", V1), Beh("delay", Undefined), Beh("progress", P1), Beh("throw", Str("boom"))}
ThrowBehs == {Beh("throw", x) : x \in Raisable}

\* createTransaction(m.id, origin, m.callbacks ? m.callbacks : [])
createTransaction(c, m, ix) ==
  [chan |-> c, id |-> m.id, callbacks |-> m.callbacks, ix |-> ix,
   delay |-> FALSE, completed |-> FALSE]

\* How a piece of the try block ends: the state after it, whether it raised (exc)
\* or returned (resp), and the transaction's closure state
Returned(e, t, resp) == [e |-> e, threw |-> FALSE, exc |-> Undefined, resp |-> resp, t |-> t]
Threw(e, t, exc) == [e |-> e, threw |-> TRUE, exc |-> exc, resp |-> Undefined, t |-> t]
\* a library function called in the try block raised an Error, or returned
Caught(e, t, resp) ==
  IF e.raised # "" THEN Threw([e EXCEPT !.raised = ""], t, ErrorObj("Error"))
  ELSE Returned(e, t, resp)

\* destroy() called by the channel's own handler: what it does to the closure state
\* (lines 729-734); the registry, the listener and cfg.origin are in DeliverDestroy
destroyIn(e) ==
  [e EXCEPT !.ready = FALSE, !.reg = NoRegs, !.inTbl = {}, !.outTbl = <<>>, !.pq = <<>>,
            !.evs = Append(@, Ev("destroy", NoId, NoMsg, Str("handler"), Undefined))]

\* the user's handler, invoked with (trans, params), doing beh
RunUser(e, c, t, params, beh) ==
  CASE beh.k = "return" -> Returned(e, t, beh.v)
    [] beh.k = "destroy" -> Returned(destroyIn(e), t, beh.v)
    [] beh.k = "delay" -> Returned(e, [t EXCEPT !.delay = TRUE], Undefined)
    [] beh.k = "throw" -> Threw(e, t, beh.v)
    [] OTHER ->
         IF params.t \in {"undefined", "null"} \/ ~IsCallable(Get(params, "onProgress"))
         THEN Threw(e, t, ErrorObj("TypeError"))
         ELSE Caught(t_invoke(e, c, t, "onProgress", beh.v), t, V1)

\* regTbl[method](trans, m.params) of line 469
RunHandler(e, c, t, m, params, h, beh) ==
  IF h = "onReady" THEN Caught(onReady(e, c, params), t, Undefined)
  \* Object.prototype.toString.call(regTbl, trans, params)
  ELSE IF h = "builtin" THEN Returned(e, t, Str("[object Object]"))
  \* regTbl[method] is not a function
  ELSE IF h = "object" THEN Threw(e, t, ErrorObj("TypeError"))
  ELSE RunUser([e EXCEPT !.evs = Append(@, Ev("handler", m.id, m, beh, params))],
               c, t, params, beh)

\* lines 449-469: the stubs, then the handler
TryBody(e, c, t, m, st, h, beh) ==
  IF st.threw THEN Threw(e, t, ErrorObj("TypeError"))
  ELSE RunHandler(e, c, t, m, st.params, h, beh)

\* lines 470-472: if (!trans.delayReturn() && !trans.completed()) trans.complete(resp)
AutoComplete(run, c) ==
  IF ~run.threw /\ ~run.t.delay /\ ~run.t.completed
  THEN Caught(t_complete(run.e, c, run.t, run.resp), run.t, Undefined)
  ELSE run

\* line 514: trans.error(error, message) with the normalised n, unless the catch
\* block itself raised
SendError(e, c, t, n) ==
  IF n.threw THEN [e EXCEPT !.raised = "TypeError"]
  ELSE t_error(e, c, t, n.error, n.message)

\* lines 473-515: the catch block
CatchBlock(run, c) ==
  IF ~run.threw THEN run.e ELSE SendError(run.e, c, run.t, Normalize(run.exc))

\* the handler keeps the transaction object it was given
Kept(e, c, m, ix) ==
  IF ix = 0 THEN e
  ELSE [e EXCEPT !.trans = Append(@, [chan |-> c, id |-> m.id, callbacks |-> m.callbacks])]

\* the request branch, h being regTbl[method] and st the outcome of the stubs
onRequestOf(e, c, m, h, st, beh, ix) ==
  IF h = "none" THEN e
  ELSE Kept(CatchBlock(AutoComplete(TryBody([e EXCEPT !.inTbl = @ \cup {m.id}], c,
                                            createTransaction(c, m, ix), m, st, h, beh),
                                    c), c),
            c, m, ix)

\* onMessage, the request branch (lines 441-516); ix numbers the transaction object
onRequest(e, c, method, m, beh, ix) ==
  onRequestOf(e, c, m, RegGet(e.reg, method), InstallStubs(m), beh,
              IF RegGet(e.reg, method) = "user" /\ ~InstallStubs(m).threw THEN ix ELSE 0)

\* onMessage, the notification branch (lines 544-553): regTbl[method]({origin}, m.params)
onNotification(e, c, method, m, beh) ==
  LET h == RegGet(e.reg, method)
      called == [e EXCEPT !.evs = Append(@, Ev("handler", m.id, m, beh, m.params))]
  IN  CASE h = "none" -> e
        [] h = "onReady" -> onReady(e, c, m.params)
        [] h = "builtin" -> e
        [] h = "object" -> [e EXCEPT !.raised = "TypeError"]
        [] OTHER ->
             CASE beh.k = "return" -> called
               [] beh.k = "destroy" -> destroyIn(called)
               [] beh.k = "throw" -> [called EXCEPT !.raised = "uncaught"]
               \* {origin} has no delayReturn, m.params has no stub
               [] OTHER -> [called EXCEPT !.raised = "TypeError"]

\* onMessage, the callback branch (lines 517-523)
onCallback(e, c, m) ==
  IF m.id \notin DOMAIN e.outTbl THEN e
  ELSE IF m.callback \in InheritedFns \ e.outTbl[m.id].callbacks THEN e
  ELSE IF m.callback \in InheritedObjs \ e.outTbl[m.id].callbacks
  THEN [e EXCEPT !.raised = "TypeError"]
  ELSE IF m.callback \notin e.outTbl[m.id].callbacks THEN e
  ELSE [e EXCEPT !.evs = Append(@, Ev("callback", m.id, NoMsg, Str(m.callback), m.params))]

\* outTbl[m.id].error(m.error, m.message), or outTbl[m.id].success(m.result)
ResolveEv(m) ==
  IF Truthy(m.error) THEN Ev("error", m.id, NoMsg, m.error, m.message)
  ELSE Ev("success", m.id, NoMsg, m.result, Undefined)

\* onMessage, the response branch (lines 524-543)
onResponse(e, c, m) ==
  IF m.id \notin DOMAIN e.outTbl THEN e
  ELSE IF Truthy(m.error) /\ ~e.outTbl[m.id].hasError
  THEN \* outTbl[m.id].error is undefined
       [e EXCEPT !.raised = "TypeError"]
  ELSE IF e.outTbl[m.id].throws
  THEN \* the user's function raises: lines 541-542 are not reached
       [e EXCEPT !.evs = Append(@, ResolveEv(m)), !.raised = "uncaught"]
  ELSE [e EXCEPT
          !.evs = Append(@, ResolveEv(m)),
          !.outTbl = TblDel(@, m.id),
          !.transIds = TblDel(@, m.id)]

\* onMessage(origin, method, m) of channel c
onMessage(e, c, method, m, beh, ix) ==
  IF IdTruthy(m.id) /\ method # <<>> THEN onRequest(e, c, method, m, beh, ix)
  ELSE IF IdTruthy(m.id) /\ m.callback # "" THEN onCallback(e, c, m)
  ELSE IF IdTruthy(m.id) THEN onResponse(e, c, m)
  ELSE IF method # <<>> THEN onNotification(e, c, method, m, beh)
  ELSE e

\* ------------------------------------------------------------ the transport
\* cfg.window.postMessage(text, cfg.origin) reaches the window when its origin
\* matches the target origin; where null is read as the options argument the target
\* origin is '/', the origin of the sender
Accepts(c) ==
  \/ cfg[c].origin = "*"
  \/ cfg[c].origin = OriginOf(cfg[c].window)
  \/ cfg[c].origin = NullOrigin /\ OriginOf(cfg[c].home) = OriginOf(cfg[c].window)
Envelope(c, msg) ==
  [source |-> cfg[c].home, origin |-> OriginOf(cfg[c].home), data |-> Wire(msg)]
Sent(ib, c, posts) ==
  IF posts = <<>> \/ ~Accepts(c) THEN ib
  ELSE [ib EXCEPT ![cfg[c].window] = @ \o [i \in DOMAIN posts |-> Envelope(c, posts[i])]]

\* the state after a step of channel c that ended as e, ib being the inboxes
Apply(c, e, ib) ==
  /\ inTbl' = [inTbl EXCEPT ![c] = e.inTbl]
  /\ outTbl' = [outTbl EXCEPT ![c] = e.outTbl]
  /\ s_transIds' = [s_transIds EXCEPT ![cfg[c].home] = e.transIds]
  /\ regTbl' = [regTbl EXCEPT ![c] = e.reg]
  /\ ready' = [ready EXCEPT ![c] = e.ready]
  /\ pendingQueue' = [pendingQueue EXCEPT ![c] = e.pq]
  /\ log' = [log EXCEPT ![c] = @ \o e.evs]
  /\ inbox' = Sent(ib, c, e.posts)
  /\ transObjs' = transObjs \o e.trans
  /\ raised' = e.raised

\* ------------------------------------------------------------- s_onMessage
\* the scope and the unscoped method of m.method.split('::')
MsgScope(parts) == IF Len(parts) = 2 THEN parts[1] ELSE "undefined"
MsgMeth(parts) == IF Len(parts) = 2 THEN <<parts[2]>> ELSE parts

\* the handler of the first entry of arr whose win is w, 0 if there is none
FirstWin(arr, w) ==
  IF hasWin(arr, w)
  THEN arr[CHOOSE i \in DOMAIN arr :
             arr[i].win = w /\ \A j \in DOMAIN arr : arr[j].win = w => i <= j].handler
  ELSE 0

\* the channel whose onMessage s_onMessage of window w calls for event ev, 0 if none
Route(w, ev) ==
  LET m == ev.data
      s == MsgScope(m.method)
  IN  IF m.method # <<>>
      THEN IF s \notin ScopeKeys THEN 0
           ELSE IF FirstWin(s_boundChans[w][ev.origin][s], ev.source) # 0
           THEN FirstWin(s_boundChans[w][ev.origin][s], ev.source)
           ELSE FirstWin(s_boundChans[w]["*"][s], ev.source)
      ELSE IF m.id # NoId /\ m.id \in DOMAIN s_transIds[w] THEN s_transIds[w][m.id]
      ELSE 0

\* what the handler the dispatch reaches may do
BehsFor(c, m, behs) ==
  IF m.method # <<>> /\ RegGet(regTbl[c], MsgMeth(m.method)) = "user"
  THEN behs ELSE {NoBeh}

\* the browser dispatches the oldest message event of window w; behs is what the
\* user's handlers may do
Deliver(w, behs) ==
  /\ inbox[w] # <<>>
  /\ LET ev == Head(inbox[w])
         ib == [inbox EXCEPT ![w] = Tail(@)]
         c == Route(w, ev)
     IN  IF ~listening[w] \/ c = 0
         THEN /\ inbox' = ib
              /\ raised' = ""
              /\ UNCHANGED <<s_transIds, regTbl, outTbl, inTbl, ready, pendingQueue,
                             transObjs, log>>
         ELSE \E beh \in BehsFor(c, ev.data, behs) :
                Apply(c, onMessage(Eff(c), c, MsgMeth(ev.data.method), ev.data, beh,
                                   Len(transObjs) + 1), ib)
  /\ UNCHANGED <<s_curTranId, s_boundChans, listening, nChans, cfg, timers, pingTimer,
                 nCalls, nNotifies, nRaw>>

\* the browser dispatches the oldest message event of window w to a user's handler
\* that calls destroy() on its own channel and returns V1
DeliverDestroy(w) ==
  /\ inbox[w] # <<>>
  /\ listening[w]
  /\ LET ev == Head(inbox[w])
         c == Route(w, ev)
     IN  /\ c # 0
         /\ ev.data.method # <<>>
         /\ RegGet(regTbl[c], MsgMeth(ev.data.method)) = "user"
         /\ IdTruthy(ev.data.id) => ~InstallStubs(ev.data).threw
         /\ Apply(c, onMessage(Eff(c), c, MsgMeth(ev.data.method), ev.data,
                               Beh("destroy", V1), Len(transObjs) + 1),
                  [inbox EXCEPT ![w] = Tail(@)])
         /\ s_boundChans' =
              [s_boundChans EXCEPT
                 ![w] = s_removeBoundChan(@, cfg[c].window, cfg[c].origin, ScopeKey(cfg[c]))]
         /\ listening' = [listening EXCEPT ![w] = FALSE]
         /\ cfg' = [cfg EXCEPT ![c].origin = NullOrigin]
  /\ UNCHANGED <<s_curTranId, nChans, timers, pingTimer, nCalls, nNotifies, nRaw>>

\* -------------------------------------------------------------------- call
\* pruneFunctions("", params): the functions of params are moved to callbacks
pruneFunctions(params) ==
  IF params.t = "object"
  THEN LET fns == {k \in DOMAIN params.f : params.f[k].t = "function"} IN
       [params |-> Obj([k \in DOMAIN params.f \ fns |-> params.f[k]]), callbacks |-> fns]
  ELSE [params |-> params, callbacks |-> {}]

RECURSIVE SetToSeq(_)
SetToSeq(S) == IF S = {} THEN <<>> ELSE LET x == CHOOSE x \in S : TRUE IN <<x>> \o SetToSeq(S \ {x})

\* the id call() gives its request
AllocId(w) == s_curTranId[w]
\* s_curTranId++
NextIdSame(id) == id
NextId(id) == id + 1

Timeout == 10
\* the argument m of call(): given says whether m was passed at all, name is m.method
\* as passed and method the method name it spells, success is m.success; throws says
\* whether the user's success and error functions raise when they are invoked
CallArg(params, hasError, timeout) ==
  [given |-> TRUE, name |-> Str("m"), method |-> <<"m">>, success |-> Fn("success"),
   params |-> params, hasError |-> hasError, timeout |-> timeout, throws |-> FALSE]
WithFn == Obj("onProgress" :> Fn("cb"))
CallArgs ==
  {CallArg(Undefined, TRUE, 0), CallArg(Undefined, TRUE, Timeout),
   CallArg(Undefined, FALSE, Timeout), CallArg(WithFn, TRUE, 0)}

\* a field of params that holds the params object itself
SelfRef == [t |-> "ref"]
\* pruneFunctions("", params) throws when it meets a value it has already seen: params
\* met again below itself, or null met a second time (typeof null is 'object')
pruneThrows(params) ==
  /\ params.t = "object"
  /\ \/ \E k \in DOMAIN params.f : params.f[k] = SelfRef
     \/ Cardinality({k \in DOMAIN params.f : params.f[k] = Null}) >= 2

\* the checks of call() without the one of m.success
callRejectsNoSuccess(a) ==
  IF ~a.given THEN "missing arguments to call function"
  ELSE IF ~Truthy(a.name) \/ TypeOf(a.name) # "string"
  THEN "'method' argument to call must be string"
  ELSE IF pruneThrows(a.params) THEN "params cannot be a recursive data structure"
  ELSE ""
\* the Error call(m) throws before it builds its message, "" when it throws none
callRejects(a) ==
  IF ~a.given THEN "missing arguments to call function"
  ELSE IF ~Truthy(a.name) \/ TypeOf(a.name) # "string"
  THEN "'method' argument to call must be string"
  ELSE IF ~Truthy(a.success) \/ TypeOf(a.success) # "function"
  THEN "'success' callback missing from call"
  ELSE IF pruneThrows(a.params) THEN "params cannot be a recursive data structure"
  ELSE ""

\* call(a) of channel c from its message on: a has passed the checks
CallAccepted(c, a) ==
  /\ LET w == cfg[c].home
         id == AllocId(w)
         pr == pruneFunctions(a.params)
         msg == [NoMsg EXCEPT !.id = id, !.method = scopeMethod(c, a.method),
                              !.params = pr.params, !.callbacks = SetToSeq(pr.callbacks)]
         e0 == Eff(c)
         e1 == [e0 EXCEPT
                  !.outTbl = (id :> [callbacks |-> pr.callbacks, hasError |-> a.hasError,
                                     throws |-> a.throws]) @@ @,
                  !.transIds = (id :> c) @@ @,
                  !.evs = <<Ev("call", id, Wire(msg), a, Undefined)>>]
     IN  /\ timers' = IF a.timeout # 0 THEN timers \cup {[chan |-> c, id |-> id]} ELSE timers
         /\ s_curTranId' = [s_curTranId EXCEPT ![w] = NextId(id)]
         /\ Apply(c, postMessage(e1, c, msg, FALSE), inbox)
  /\ nCalls' = nCalls + 1
  /\ UNCHANGED <<s_boundChans, listening, nChans, cfg, pingTimer, nNotifies,
                 nRaw>>

\* obj.call(a) of channel c
Call(c, a) ==
  /\ c \in 1..nChans
  /\ cfg[c].home \in Callers
  /\ IF callRejects(a) # ""
     THEN /\ raised' = callRejects(a)
          /\ UNCHANGED <<s_curTranId, s_boundChans, s_transIds, listening, nChans, cfg,
                         regTbl, outTbl, inTbl, ready, pendingQueue, timers, pingTimer,
                         transObjs, inbox, log, nCalls, nNotifies, nRaw>>
     ELSE CallAccepted(c, a)

\* obj.notify({method, params})
Notify(c, method) ==
  /\ c \in 1..nChans
  /\ cfg[c].home \in Callers
  /\ LET msg == [NoMsg EXCEPT !.method = scopeMethod(c, method)] IN
       Apply(c, postMessage([Eff(c) EXCEPT !.evs = <<Ev("notify", NoId, msg, Undefined, Undefined)>>],
                            c, msg, FALSE),
             inbox)
  /\ nNotifies' = nNotifies + 1
  /\ UNCHANGED <<s_curTranId, s_boundChans, listening, nChans, cfg, timers, pingTimer,
                 nCalls, nRaw>>

\* ------------------------------------------------------------------ timers
TimeoutMsg(c, id) == [t |-> "string", timeout |-> Timeout, id |-> id]

\* a timeout function that invokes error and deletes nothing
onTimeoutKeep(e0, c, id) ==
  LET e == [e0 EXCEPT !.evs = Append(@, Ev("timer", id, NoMsg, Undefined, Undefined))] IN
  IF id \notin DOMAIN e.outTbl THEN e
  ELSE IF ~e.outTbl[id].hasError
  THEN [e EXCEPT !.raised = "TypeError"]
  ELSE IF e.outTbl[id].throws
  THEN [e EXCEPT
          !.evs = Append(@, Ev("error", id, NoMsg, Str("timeout_error"), TimeoutMsg(c, id))),
          !.raised = "uncaught"]
  ELSE [e EXCEPT
          !.evs = Append(@, Ev("error", id, NoMsg, Str("timeout_error"), TimeoutMsg(c, id)))]

\* the function setTransactionTimeout schedules, when it runs
onTimeout(e0, c, id) ==
  LET e == [e0 EXCEPT !.evs = Append(@, Ev("timer", id, NoMsg, Undefined, Undefined))] IN
  IF id \notin DOMAIN e.outTbl THEN e
  ELSE IF ~e.outTbl[id].hasError
  THEN [e EXCEPT !.raised = "TypeError"]
  ELSE IF e.outTbl[id].throws
  THEN [e EXCEPT
          !.evs = Append(@, Ev("error", id, NoMsg, Str("timeout_error"), TimeoutMsg(c, id))),
          !.raised = "uncaught"]
  ELSE [e EXCEPT
          !.evs = Append(@, Ev("error", id, NoMsg, Str("timeout_error"), TimeoutMsg(c, id))),
          !.outTbl = TblDel(@, id),
          !.transIds = TblDel(@, id)]

TimerFire(t) ==
  /\ t \in timers
  /\ timers' = timers \ {t}
  /\ Apply(t.chan, onTimeout(Eff(t.chan), t.chan, t.id), inbox)
  /\ UNCHANGED <<s_curTranId, s_boundChans, listening, nChans, cfg, pingTimer,
                 nCalls, nNotifies, nRaw>>

\* the setTimeout(..., 0) of a child: postMessage({method: '__ready', params: 'ping'}, true)
\* cfg.window.postMessage(text, null) raises a SyntaxError where null is converted
\* to the target origin 'null' (postMessage), and posts where null is read as the
\* options argument of postMessage(message, options) (postMessageOptions)
postMessageOptions(e, msg) ==
  [e EXCEPT !.posts = Append(@, msg), !.evs = Append(@, PostEv(msg))]
PingFire(c) ==
  /\ c \in pingTimer
  /\ pingTimer' = pingTimer \ {c}
  /\ \/ Apply(c, postMessage(Eff(c), c, ReadyMsg(c, "ping"), TRUE), inbox)
     \/ /\ cfg[c].origin = NullOrigin
        /\ Apply(c, postMessageOptions(Eff(c), ReadyMsg(c, "ping")), inbox)
  /\ UNCHANGED <<s_curTranId, s_boundChans, listening, nChans, cfg, timers,
                 nCalls, nNotifies, nRaw>>

\* ------------------------------- user code that kept a transaction object
V2 == Str("v2")
\* trans.complete(V2), called after the handler returned
Complete(i) ==
  /\ i \in DOMAIN transObjs
  /\ LET t == transObjs[i] @@ [ix |-> i] IN
       Apply(t.chan, t_complete(Eff(t.chan), t.chan, t, V2), inbox)
  /\ UNCHANGED <<s_curTranId, s_boundChans, listening, nChans, cfg, timers, pingTimer,
                 nCalls, nNotifies, nRaw>>

\* trans.error("late", "late"), called after the handler returned
ErrorT(i) ==
  /\ i \in DOMAIN transObjs
  /\ LET t == transObjs[i] @@ [ix |-> i] IN
       Apply(t.chan, t_error(Eff(t.chan), t.chan, t, Str("late"), Str("late")), inbox)
  /\ UNCHANGED <<s_curTranId, s_boundChans, listening, nChans, cfg, timers, pingTimer,
                 nCalls, nNotifies, nRaw>>

\* trans.invoke("onProgress", P1), called after the handler returned
Invoke(i) ==
  /\ i \in DOMAIN transObjs
  /\ LET t == transObjs[i] @@ [ix |-> i] IN
       Apply(t.chan, t_invoke(Eff(t.chan), t.chan, t, "onProgress", P1), inbox)
  /\ UNCHANGED <<s_curTranId, s_boundChans, listening, nChans, cfg, timers, pingTimer,
                 nCalls, nNotifies, nRaw>>

\* --------------------------------------------- two windows and their channels
KA == [home |-> "A", window |-> "B", origin |-> "http://b.com", scope |-> <<"a">>, type |-> ""]
KB == [home |-> "B", window |-> "A", origin |-> "*", scope |-> <<"a">>, type |-> "child"]
KA2 == [home |-> "A", window |-> "B", origin |-> "http://b.com", scope |-> <<>>, type |-> ""]

RpcOrder == <<KB, KA, KA2>>
Init == InitWith(0..MaxSeed) /\ \A w \in Win \ Callers : s_curTranId[w] = 1
DoBuild == nChans < Len(RpcOrder) /\ Build(RpcOrder[nChans + 1].home, RpcOrder[nChans + 1])
DoDestroy == \E c \in Chans : Destroy(c)
DoBind == \E c \in Chans, m \in UserMethods : Bind(c, m)
DoCall == nCalls < MaxCalls /\ \E c \in Chans, a \in CallArgs : Call(c, a)
DoNotify == nNotifies < MaxNotifies /\ \E c \in Chans, m \in UserMethods : Notify(c, m)
DoDeliver == \E w \in Win : Deliver(w, BasicBehs)
DoTimerFire == \E t \in timers : TimerFire(t)
DoPingFire == \E c \in Chans : PingFire(c)
DoComplete == \E i \in DOMAIN transObjs : Complete(i)
DoErrorT == \E i \in DOMAIN transObjs : ErrorT(i)
DoInvoke == \E i \in DOMAIN transObjs : Invoke(i)
Spec ==
  Init /\
    [][\/ DoBuild
       \/ DoDestroy
       \/ DoBind
       \/ DoCall
       \/ DoNotify
       \/ DoDeliver
       \/ DoTimerFire
       \/ DoPingFire
       \/ DoComplete
       \/ DoErrorT
       \/ DoInvoke]_vars

\* ------------------------------------------- the registry on its own
RegCfgs ==
  [home : {"A"}, window : {"B", "C"}, origin : {"*", "http://b.com", "http://c.com"},
   scope : {<<>>, <<"">>, <<"a">>}, type : {""}]

InitReg == InitWith({1})
BuildReg == \E k \in RegCfgs : Build("A", k)
DestroyReg == \E c \in Chans : Destroy(c)
SpecReg ==
  InitReg /\
    [][\/ BuildReg
       \/ DestroyReg]_vars

\* ------------------------------- several calls on the channels of one window
MaxIdCalls == 2
IdCallArgs == {CallArg(Undefined, TRUE, 0), CallArg(Undefined, TRUE, Timeout)}
DoCallIds == nCalls < MaxIdCalls /\ \E c \in Chans, a \in IdCallArgs : Call(c, a)
DoDeliverIds == \E w \in Win : Deliver(w, {Beh("return", V1)})
SpecIds ==
  Init /\
    [][\/ DoBuild
       \/ DoBind
       \/ DoCallIds
       \/ DoPingFire
       \/ DoDeliverIds
       \/ DoTimerFire]_vars

\* ---------------------------------------- calls that call() does not accept
BadCall(given, name, success, params) ==
  [CallArg(params, TRUE, Timeout) EXCEPT !.given = given, !.name = name, !.success = success]
\* no argument; no, an empty, a numeric and a function method; no, a string and an
\* object success; params that hold themselves and params with two nulls
RejectCallArgs ==
  {BadCall(FALSE, Undefined, Undefined, Undefined)}
  \cup {BadCall(TRUE, n, Fn("success"), Undefined) : n \in {Undefined, Str(""), Num(5), Fn("m")}}
  \cup {BadCall(TRUE, Str("m"), f, WithFn) : f \in {Undefined, Str("success"), Obj(<<>>)}}
  \cup {BadCall(TRUE, Str("m"), Fn("success"), p) : p \in {Obj("self" :> SelfRef), Obj(("a" :> Null) @@ ("b" :> Null))}}
DoCallReject ==
  nCalls < MaxIdCalls /\ \E c \in Chans, a \in IdCallArgs \cup RejectCallArgs : Call(c, a)
SpecReject ==
  Init /\
    [][\/ DoBuild
       \/ DoBind
       \/ DoCallReject
       \/ DoPingFire
       \/ DoDeliverIds
       \/ DoTimerFire]_vars

\* ------------------------------------- a peer that chooses the ids it sends
PeerIds == {5}
RawRequest(id) == [NoMsg EXCEPT !.id = id, !.method = <<"a", "m">>]
RawReady(type) == [NoMsg EXCEPT !.method = <<"a", "__ready">>, !.params = Str(type)]
\* script of window `from` calls w.postMessage(JSON.stringify(msg), '*')
RawSend(from, w, msg) ==
  /\ nRaw < MaxRaw
  /\ nRaw' = nRaw + 1
  /\ inbox' = [inbox EXCEPT ![w] = Append(@, [source |-> from, origin |-> OriginOf(from),
                                               data |-> Wire(msg)])]
  /\ UNCHANGED <<s_curTranId, s_boundChans, s_transIds, listening, nChans, cfg, regTbl,
                 outTbl, inTbl, ready, pendingQueue, timers, pingTimer, transObjs, log,
                 nCalls, nNotifies, raised>>
\* a Request for a method name no bind() is ever made for
RawRequestOf(id, name) == [NoMsg EXCEPT !.id = id, !.method = <<"a", name>>]
PeerMsgs ==
  {RawRequest(id) : id \in PeerIds} \cup {RawReady("ping"), RawReady("pong")}
  \cup {RawRequestOf(id, name) : id \in PeerIds, name \in {"nope"} \cup InheritedFns \cup InheritedObjs}
DoRawSend == \E msg \in PeerMsgs : RawSend("A", "B", msg)
DoDeliverPeer == \E w \in Win : Deliver(w, {Beh("delay", Undefined), Beh("return", V1)})
SpecPeer ==
  Init /\
    [][\/ DoBuild
       \/ DoBind
       \/ DoRawSend
       \/ DoDeliverPeer
       \/ DoPingFire
       \/ DoComplete
       \/ DoErrorT]_vars

\* 1 is the id of the first call of a window whose counter started at 1, 7 is no id
\* of any call
KnownId == 1
UnknownId == 7

\* ------------------- every kind of message, produced before and after the handshake
DoCallQuiet == nCalls < MaxCalls /\ \E c \in Chans, a \in {CallArg(Undefined, TRUE, 0)} : Call(c, a)
DoDeliverQuiet == \E w \in Win : Deliver(w, {Beh("return", V1), Beh("throw", Str("boom"))})
SpecQuiet ==
  Init /\
    [][\/ DoBuild
       \/ DoBind
       \/ DoCallQuiet
       \/ DoNotify
       \/ RawSend("A", "B", RawRequest(UnknownId))
       \/ DoDeliverQuiet
       \/ DoPingFire]_vars

\* -------------------------------- handlers that destroy their own channel
\* KB, a second channel of window B bound to window C under the same origin and
\* scope as KB, and KA
BuildSelf ==
  LET order == <<KB, [KB EXCEPT !.window = "C", !.type = ""], KA>> IN
  nChans < Len(order) /\ Build(order[nChans + 1].home, order[nChans + 1])
SpecSelf ==
  Init /\
    [][\/ BuildSelf
       \/ DoBind
       \/ DoCallQuiet
       \/ DoNotify
       \/ DoPingFire
       \/ DoDeliverIds
       \/ \E w \in Win : DeliverDestroy(w)]_vars

\* ------------------------------------------------- channels that are destroyed
\* a child channel of window B whose parent is D, a window of B's own origin, KA and KB
BuildInert ==
  LET order == <<[KB EXCEPT !.window = "D"], KA, KB>> IN
  nChans < Len(order) /\ Build(order[nChans + 1].home, order[nChans + 1])
SpecInert ==
  Init /\
    [][\/ BuildInert
       \/ DoBind
       \/ DoCallIds
       \/ DoDeliverIds
       \/ DoTimerFire
       \/ DoPingFire
       \/ DoDestroy]_vars

\* ------------------------- messages posted to a caller by scripts of B and of C
RawResponse(id) == [NoMsg EXCEPT !.id = id, !.result = Str("forged")]
RawError(id) == [NoMsg EXCEPT !.id = id, !.error = Str("forged"), !.message = Str("f")]
RawCallback(id, path) == [NoMsg EXCEPT !.id = id, !.callback = path, !.params = P1]
ForgeSends ==
  {<<"C", msg>> : msg \in {RawResponse(KnownId), RawError(KnownId),
                            RawCallback(KnownId, "onProgress")}}
  \cup {<<"B", RawCallback(KnownId, path)>> : path \in {"onProgress", "nope"} \cup InheritedFns \cup InheritedObjs}
  \cup {<<"B", RawCallback(UnknownId, "onProgress")>>}
DoRawForge == \E fm \in ForgeSends : RawSend(fm[1], "A", fm[2])
DoCallForge ==
  /\ nCalls < MaxCalls
  /\ \E c \in Chans, a \in {CallArg(WithFn, TRUE, 0), CallArg(WithFn, TRUE, Timeout)} : Call(c, a)
SpecForge ==
  Init /\
    [][\/ DoBuild
       \/ DoBind
       \/ DoCallForge
       \/ DoPingFire
       \/ DoDeliverIds
       \/ DoTimerFire
       \/ DoRawForge]_vars

\* ------------------- calls whose functions raise, answered more than once
\* calls with and without an error function and a timeout, whose functions return or raise
DoCallOnce ==
  /\ nCalls < MaxCalls
  /\ \E c \in Chans, he \in BOOLEAN, to \in {0, Timeout}, th \in BOOLEAN :
       Call(c, [CallArg(Undefined, he, to) EXCEPT !.throws = th])
\* the callee window posts a further Response or ErrorResponse with the id of the call
DoRawOnce == \E msg \in {RawResponse(KnownId), RawError(KnownId)} : RawSend("B", "A", msg)
SpecOnce ==
  Init /\
    [][\/ DoBuild
       \/ DoBind
       \/ DoCallOnce
       \/ DoDeliverQuiet
       \/ DoTimerFire
       \/ DoPingFire
       \/ DoRawOnce
       \/ DoDestroy]_vars

\* ------------------------------------------------------------ the handshake
\* KB and KA, and a child of window B with no scope, whose parent is KA2
BuildShake == \E k \in {KB, KA, [KB EXCEPT !.scope = <<>>], KA2} : Build(k.home, k)
\* the event loop runs every timer that is due and dispatches every message event
SpecShake ==
  /\ InitReg /\
    [][\/ BuildShake
       \/ DoPingFire
       \/ DoDeliverIds]_vars
  /\ WF_vars(DoPingFire)
  /\ \A w \in Win : WF_vars(Deliver(w, {Beh("return", V1)}))

\* ------------------------------ routing of __ready pings to scoped and unscoped channels
RouteCfgs ==
  [home : {"A"}, window : {"B"}, origin : {"*", "http://b.com"},
   scope : {<<>>, <<"">>, <<"a">>}, type : {""}]
BuildRoute == \E k \in RouteCfgs : Build("A", k)
\* the ping a child channel with no scope, and one with scope 'a', posts
RoutePings ==
  {[NoMsg EXCEPT !.method = meth, !.params = Str("ping")] :
     meth \in {<<"__ready">>, <<"a", "__ready">>}}
DoRawRoute == \E from \in {"B", "C"}, msg \in RoutePings : RawSend(from, "A", msg)
DoDeliverRoute == Deliver("A", {NoBeh})
SpecRoute ==
  InitReg /\
    [][\/ BuildRoute
       \/ DoRawRoute
       \/ DoDeliverRoute]_vars

\* ----------------------------------------------- handlers that raise values
DoCallThrow == nCalls < MaxCalls /\ \E c \in Chans : Call(c, CallArg(Undefined, TRUE, 0))
DoDeliverThrow == \E w \in Win : Deliver(w, ThrowBehs)
SpecThrow ==
  Init /\
    [][\/ DoBuild
       \/ DoBind
       \/ DoCallThrow
       \/ DoPingFire
       \/ DoDeliverThrow]_vars

\* ------------------------------------------------------------ reading the log
IsResponse(ev, id) ==
  ev.ev = "post" /\ ev.msg.id = id /\ ev.msg.method = <<>> /\ ev.msg.callback = ""
\* the invocations of the success and error functions of the call with this id
Resolutions(c, id) ==
  {k \in DOMAIN log[c] : log[c][k].ev \in {"success", "error"} /\ log[c][k].id = id}
\* the complete()s and error()s that succeeded on transactions of this id
Completions(c, id) ==
  {k \in DOMAIN log[c] : log[c][k].ev \in {"t.complete", "t.error"} /\ log[c][k].id = id}
Destroyed(c) == c \in 1..nChans /\ cfg[c].origin = NullOrigin
\* log[c2][j] is the user's handler being invoked for the request of call log[c1][i]
Handles(c1, i, c2, j) ==
  /\ log[c1][i].ev = "call"
  /\ log[c2][j].ev = "handler"
  /\ log[c2][j].msg = log[c1][i].msg
  /\ cfg[c2].home = cfg[c1].window
  /\ cfg[c1].home = cfg[c2].window

\* ---------------------------------------------------------------------- C1
\* C1: when the callee's handler of m returns V1 for the request of a call without
\* timeout, the callee posts a Response with V1 and closes the transaction, the
\* caller's success is the only function invoked for the call, once and with V1,
\* and after it neither outTbl nor s_transIds holds the id.
RoundTrip(c1, i, c2, j) ==
  LET id == log[c1][i].id IN
  /\ \E k \in DOMAIN log[c2] :
       k > j /\ IsResponse(log[c2][k], id) /\ log[c2][k].msg.result = V1
  /\ id \notin inTbl[c2]
  /\ Cardinality(Resolutions(c1, id)) <= 1
  /\ \A k \in Resolutions(c1, id) :
       /\ log[c1][k].ev = "success" /\ log[c1][k].a = V1
       /\ id \notin DOMAIN outTbl[c1]
       /\ id \notin DOMAIN s_transIds[cfg[c1].home]
C1_RoundTrip ==
  \A c1 \in Chans, c2 \in Chans : \A i \in DOMAIN log[c1], j \in DOMAIN log[c2] :
    (Handles(c1, i, c2, j) /\ log[c1][i].a.timeout = 0 /\ log[c2][j].a = Beh("return", V1))
      => RoundTrip(c1, i, c2, j)
\* the same for the calls whose id is not 0
C1_RoundTripNonZero ==
  \A c1 \in Chans, c2 \in Chans : \A i \in DOMAIN log[c1], j \in DOMAIN log[c2] :
    (/\ Handles(c1, i, c2, j) /\ log[c1][i].a.timeout = 0
     /\ log[c2][j].a = Beh("return", V1) /\ log[c1][i].id # 0)
      => RoundTrip(c1, i, c2, j)

\* ---------------------------------------------------------------------- C4
\* the request of call log[c1][i] reached a bound method of c2: a transaction of
\* its id was answered or the user's handler ran for it
Dispatched(c1, i, c2) ==
  /\ log[c1][i].ev = "call"
  /\ cfg[c2].home = cfg[c1].window /\ cfg[c1].home = cfg[c2].window
  /\ \E k \in DOMAIN log[c2] :
       /\ log[c2][k].ev \in {"t.complete", "t.error", "handler"}
       /\ log[c2][k].id = log[c1][i].id
\* C4: a call whose params hold a function at onProgress sends a Request listing the
\* path onProgress in callbacks; when the Request reaches the bound method the
\* handler is invoked with a callable at params.onProgress, and every progress
\* value the handler passes to it arrives at the caller's original function.
C4_CallbackMarshal ==
  \A c1 \in Chans, c2 \in Chans : \A i \in DOMAIN log[c1] :
    (log[c1][i].ev = "call" /\ TypeOf(Get(log[c1][i].a.params, "onProgress")) = "function")
      => /\ log[c1][i].msg.callbacks = <<"onProgress">>
         /\ Dispatched(c1, i, c2) =>
              \E j \in DOMAIN log[c2] :
                /\ Handles(c1, i, c2, j)
                /\ IsCallable(Get(log[c2][j].b, "onProgress"))

\* ---------------------------------------------------------------------- C5
\* the timer log[c][k] fired on a channel that had not been destroyed
TimedOut(c, k) ==
  log[c][k].ev = "timer" /\ \A d \in 1..k : log[c][d].ev # "destroy"
C6_DestroyClearsRouter ==
  \A c \in Chans : \A i \in DOMAIN log[c], d \in DOMAIN log[c] :
    (log[c][i].ev = "call" /\ log[c][d].ev = "destroy" /\ i < d)
      => /\ log[c][i].id \notin DOMAIN s_transIds[cfg[c].home]
         /\ \A r \in Resolutions(c, log[c][i].id) : r < d

\* ---------------------------------------------------------------------- C8
\* C8: after a handler called delayReturn(true) and returned, no Response is sent
\* for the request until complete or error is called on the transaction, the
\* transaction stays open until then, a later complete(V2) sends the Response that
\* makes the caller's success run with V2, and only one complete or error succeeds.
C8_DelayReturn ==
  \A c1 \in Chans, c2 \in Chans : \A i \in DOMAIN log[c1], j \in DOMAIN log[c2] :
    (Handles(c1, i, c2, j) /\ log[c2][j].a.k = "delay" /\ IdTruthy(log[c1][i].id))
      => LET id == log[c1][i].id IN
         /\ Cardinality(Completions(c2, id)) <= 1
         /\ \A k \in DOMAIN log[c2] :
              IsResponse(log[c2][k], id) =>
                /\ k - 1 \in Completions(c2, id)
                /\ log[c2][k - 1].ev = "t.complete" => log[c2][k].msg.result = log[c2][k - 1].b
         /\ (Completions(c2, id) = {} /\ ~Destroyed(c2)) => id \in inTbl[c2]
         /\ Completions(c2, id) # {} => id \notin inTbl[c2]
         /\ \A k \in Resolutions(c1, id) :
              log[c1][k].ev = "success" =>
                \E d \in Completions(c2, id) :
                  log[c2][d].ev = "t.complete" /\ log[c1][k].a = log[c2][d].b
\* complete(V2) answered a delayed request, success ran with V2, and a second
\* complete on the same transaction raised
C8_Witness ==
  \E c1 \in Chans, c2 \in Chans : \E i \in DOMAIN log[c1], j \in DOMAIN log[c2] :
    /\ Handles(c1, i, c2, j) /\ log[c2][j].a.k = "delay" /\ IdTruthy(log[c1][i].id)
    /\ \E d \in Completions(c2, log[c1][i].id) : log[c2][d].ev = "t.complete"
    /\ \E k \in Resolutions(c1, log[c1][i].id) : log[c1][k].a = V2
    /\ raised = "complete called for nonexistent message"

\* ---------------------------------------------------------------------- C7
\* what a step appended to the log of c
Added(c) == SubSeq(log'[c], Len(log[c]) + 1, Len(log'[c]))
QueuedPosts(c) ==
  [i \in 1..Len(pendingQueue[c]) |-> PostEv(pendingQueue[c][Len(pendingQueue[c]) + 1 - i])]
ObserverEv == Ev("onReady", NoId, NoMsg, Undefined, Undefined)
\* a step in which c stays not ready posts nothing but the forced ping, and puts
\* the message of a call or notify it makes at the end of the queue
QueuedWhileNotReady(c) ==
  /\ \A k \in DOMAIN Added(c) :
       /\ Added(c)[k].ev = "post" => Added(c)[k].msg = Wire(ReadyMsg(c, "ping"))
       /\ Added(c)[k].ev \in {"call", "notify"} =>
            /\ pendingQueue'[c] # <<>>
            /\ Wire(pendingQueue'[c][Len(pendingQueue'[c])]) = Wire(Added(c)[k].msg)
            /\ SubSeq(pendingQueue'[c], 1, Len(pendingQueue'[c]) - 1) = pendingQueue[c]
\* the step in which c becomes ready posts the pong if it owes one, then the queued
\* messages, last queued first, each once, then runs the onReady observer, and
\* leaves the queue empty
FlushedOnReady(c) ==
  /\ pendingQueue'[c] = <<>>
  /\ \E pong \in {<<>>, <<PostEv(ReadyMsg(c, "pong"))>>} :
       Added(c) = pong \o QueuedPosts(c) \o <<ObserverEv>>
\* C7: messages sent while a channel is not ready are queued and not posted; when the
\* handshake completes they are posted exactly once in reverse order of queueing,
\* the queue is left empty, and the onReady observer runs after the flush.
C7_Flush ==
  [][\A c \in Chans :
       /\ (~ready[c] /\ ~ready'[c]) => QueuedWhileNotReady(c)
       /\ (~ready[c] /\ ready'[c]) => FlushedOnReady(c)]_vars
\* a channel that queued a call and then a notify has just become ready
C7_Witness ==
  \E c \in Chans : \E i \in DOMAIN log[c] :
    /\ ready[c] /\ log[c][Len(log[c])] = ObserverEv
    /\ log[c][i].ev = "call" /\ i + 1 \in DOMAIN log[c] /\ log[c][i + 1].ev = "notify"
    /\ Len(log[c]) >= i + 4
    /\ log[c][Len(log[c]) - 2].ev = "post"
    /\ log[c][Len(log[c]) - 2].msg = Wire(log[c][i + 1].msg)
    /\ log[c][Len(log[c]) - 1].ev = "post"
    /\ log[c][Len(log[c]) - 1].msg = log[c][i].msg

\* ---------------------------------------------------------------------- C2
\* two entries of a registry for the same remote window and scope
SamePlace(w, o1, i, o2, j, sc) ==
  /\ i \in DOMAIN s_boundChans[w][o1][sc] /\ j \in DOMAIN s_boundChans[w][o2][sc]
  /\ <<o1, i>> # <<o2, j>>
  /\ s_boundChans[w][o1][sc][i].win = s_boundChans[w][o2][sc][j].win
\* C2: no two bindings of a registry have the same remote window and the same scope
\* while their origins are equal, both '*' included, or one of them is '*'.
C2_NoOverlap ==
  \A w \in Win, o1 \in OriginKeys, o2 \in OriginKeys, sc \in ScopeKeys, i \in Chans, j \in Chans :
    SamePlace(w, o1, i, o2, j, sc) => ~(o1 = o2 \/ o1 = "*" \/ o2 = "*")
\* the same for the pairs that are not two '*' bindings
C2_NoOverlapButWildcards ==
  \A w \in Win, o1 \in OriginKeys, o2 \in OriginKeys, sc \in ScopeKeys, i \in Chans, j \in Chans :
    (SamePlace(w, o1, i, o2, j, sc) /\ ~(o1 = "*" /\ o2 = "*"))
      => ~(o1 = o2 \/ o1 = "*" \/ o2 = "*")

\* ---------------------------------------------------------------------- C3
Outstanding(c, i) == log[c][i].ev = "call" /\ log[c][i].id \in DOMAIN outTbl[c]
\* C3: two calls of the channels of one window that are outstanding together have
\* different ids, every call takes the counter's value and leaves it one higher, and
\* every id the router of a window holds is below the window's counter.
C3_UniqueIds ==
  /\ \A c1 \in Chans, c2 \in Chans : \A i \in DOMAIN log[c1], j \in DOMAIN log[c2] :
       (/\ cfg[c1].home = cfg[c2].home /\ <<c1, i>> # <<c2, j>>
        /\ Outstanding(c1, i) /\ Outstanding(c2, j))
         => log[c1][i].id # log[c2][j].id
  /\ \A w \in Win : \A id \in DOMAIN s_transIds[w] : id < s_curTranId[w]
C3_CounterStep ==
  [][\A c \in Chans :
       (Len(log'[c]) > Len(log[c]) /\ log'[c][Len(log'[c])].ev = "call")
         => /\ log'[c][Len(log'[c])].id = s_curTranId[cfg[c].home]
            /\ s_curTranId'[cfg[c].home] = s_curTranId[cfg[c].home] + 1]_vars
\* calls of two channels of one window are outstanding together
C3_Witness ==
  \E c1 \in Chans, c2 \in Chans : \E i \in DOMAIN log[c1], j \in DOMAIN log[c2] :
    /\ c1 # c2 /\ cfg[c1].home = cfg[c2].home
    /\ Outstanding(c1, i) /\ Outstanding(c2, j)
    /\ log[c2][j].id = log[c1][i].id + 1

\* ---------------------------------------------------------------------- C9
\* C9: on each transaction object handed to a handler, at most one call among
\* complete() and error() ever succeeds.
C9_AtMostOne ==
  \A c \in Chans, ix \in DOMAIN transObjs :
    Cardinality({k \in DOMAIN log[c] :
                   /\ log[c][k].ev \in {"t.complete", "t.error"}
                   /\ log[c][k].a = Num(ix)}) <= 1

\* --------------------------------------------------------------------- C10
IsPairValue(x) == x.t = "array" /\ Len(x.a) = 2
HasStringError(x) ==
  /\ x.t = "object" /\ TypeOf(Get(x, "error")) = "string"
  /\ TypeOf(Get(x, "message")) \in {"string", "undefined"}
\* the (code, message) the precedence gives for a raised string, pair or object
Precedence(x) ==
  IF TypeOf(x) = "string" THEN <<Str("runtime_error"), x>>
  ELSE IF IsPairValue(x) THEN <<x.a[1], x.a[2]>>
  ELSE <<Get(x, "error"),
         IF TypeOf(Get(x, "message")) = "string" THEN Get(x, "message") ELSE Str("")>>
\* the handler invocation log[c][j] raised x and its request has an id
Raised(c, j, x) ==
  /\ log[c][j].ev = "handler" /\ log[c][j].a = Beh("throw", x)
  /\ IdTruthy(log[c][j].msg.id)
Answered(c, j, pair) ==
  /\ j + 2 \in DOMAIN log[c]
  /\ IsResponse(log[c][j + 2], log[c][j].msg.id)
  /\ <<log[c][j + 2].msg.error, log[c][j + 2].msg.message>> = pair
OneErrorResponse(c, j) ==
  LET id == log[c][j].msg.id IN
  /\ j + 2 \in DOMAIN log[c]
  /\ log[c][j + 1].ev = "t.error" /\ log[c][j + 1].id = id
  /\ IsResponse(log[c][j + 2], id) /\ Truthy(log[c][j + 2].msg.error)
  /\ Cardinality({k \in DOMAIN log[c] : IsResponse(log[c][k], id)}) = 1
  /\ id \notin inTbl[c]
\* C11: whatever value a bound request handler raises, the dispatch sends exactly one
\* ErrorResponse for the request's id and removes the id from inTbl.
C11_RaiseAnswered ==
  \A c \in Chans, x \in Raisable : \A j \in DOMAIN log[c] :
    Raised(c, j, x) => OneErrorResponse(c, j)
\* the same for the raised values other than null and undefined
C11_RaiseAnsweredDefined ==
  \A c \in Chans, x \in Raisable \ {Null, Undefined} : \A j \in DOMAIN log[c] :
    Raised(c, j, x) => OneErrorResponse(c, j)

\* --------------------------------------------------------------------- C12
\* this step dispatches a __ready message of window w to channel c, which is ready
ReadyWhileReady(w, c) ==
  /\ inbox[w] # <<>> /\ listening[w]
  /\ inbox'[w] = Tail(inbox[w])
  /\ MsgMeth(Head(inbox[w]).data.method) = <<"__ready">>
  /\ Route(w, Head(inbox[w])) = c
  /\ ready[c]
\* C12: the dispatch of a __ready message to a channel that is ready raises
\* 'received ready message while in ready state'.
C12_ReadyTwiceRaises ==
  [][\A w \in Win, c \in Chans :
       ReadyWhileReady(w, c) => raised' = "received ready message while in ready state"]_vars

\* --------------------------------------------------------------------- C13
Live(c) == c \in 1..nChans /\ cfg[c].origin # NullOrigin
\* C13: while a channel of a window is live, s_onMessage stays attached to the
\* window's 'message' event, whatever other channels were destroyed.
C13_ListenerWhileLive ==
  \A c \in Chans : Live(c) => listening[cfg[c].home]

\* --------------------------------------------------------------------- C14
\* this step dispatches the oldest message event of window w to channel c
Dispatching(w, c) ==
  /\ inbox[w] # <<>> /\ listening[w]
  /\ inbox'[w] = Tail(inbox[w])
  /\ Route(w, Head(inbox[w])) = c
\* the message event comes from the window and the origin channel c is bound to
FromPeer(c, ev) ==
  /\ ev.source = cfg[c].window
  /\ cfg[c].origin = "*" \/ ev.origin = cfg[c].origin
Invocations(evs) ==
  {k \in DOMAIN evs : evs[k].ev \in {"success", "error", "callback", "handler"}}
\* C14: a message event that does not come from the window and origin a channel is
\* bound to makes the channel invoke none of its success, error, callback or
\* handler functions.
C14_SenderChecked ==
  [][\A w \in Win, c \in Chans :
       (Dispatching(w, c) /\ ~FromPeer(c, Head(inbox[w]))) => Invocations(Added(c)) = {}]_vars

\* --------------------------------------------------------------------- C15
\* this step is s_onMessage of window w handling the oldest message event
Delivering(w) == inbox[w] # <<>> /\ listening[w] /\ inbox'[w] = Tail(inbox[w])
\* ev is a __ready message from the window and origin live channel c is bound to,
\* its method scoped as scopeMethod of c's scope scopes it
Addressed(c, ev) ==
  /\ Live(c) /\ FromPeer(c, ev)
  /\ ev.data.method = scopeMethod(c, <<"__ready">>)
\* c is bound with '*' and another live channel is bound to the same window and
\* scope with the exact origin of ev
ExactPreferred(c, ev) ==
  /\ cfg[c].origin = "*"
  /\ \E d \in Chans :
       /\ d # c /\ Live(d) /\ cfg[d].home = cfg[c].home /\ cfg[d].window = cfg[c].window
       /\ ScopeKey(cfg[d]) = ScopeKey(cfg[c]) /\ cfg[d].origin = ev.origin
RoutedTo(w, c) ==
  /\ Route(w, Head(inbox[w])) = c
  /\ ~ready[c] => ready'[c]
  /\ \A d \in Chans \ {c} : ready'[d] = ready[d] /\ log'[d] = log[d]
\* C15: a __ready message from a live binding's window with a matching origin, its
\* method carrying the binding's scope (no prefix when the scope is absent or
\* empty), is dispatched to that channel and to no other, unless the binding is a
\* wildcard one and an exact-origin binding takes it.
C15_Routed ==
  [][\A c \in Chans :
       (/\ Delivering(cfg[c].home) /\ Addressed(c, Head(inbox[cfg[c].home]))
        /\ ~ExactPreferred(c, Head(inbox[cfg[c].home])))
         => RoutedTo(cfg[c].home, c)]_vars
\* the same for the bindings that have a scope and are the only one of their
\* window and scope
C15_RoutedScoped ==
  [][\A c \in Chans :
       (/\ Delivering(cfg[c].home) /\ Addressed(c, Head(inbox[cfg[c].home]))
        /\ ScopeKey(cfg[c]) # ""
        /\ \A d \in Chans \ {c} :
             Live(d) => cfg[d].window # cfg[c].window \/ ScopeKey(cfg[d]) # ScopeKey(cfg[c]))
         => RoutedTo(cfg[c].home, c)]_vars
\* the same for the bindings without a scope: they are never reached
C15_UnscopedNeverRouted ==
  [][\A c \in Chans :
       (/\ Delivering(cfg[c].home) /\ Addressed(c, Head(inbox[cfg[c].home]))
        /\ ScopeKey(cfg[c]) = "")
         => Route(cfg[c].home, Head(inbox[cfg[c].home])) = 0]_vars

\* --------------------------------------------------------------------- C16
\* C16: destroy() of a channel that is already destroyed does not raise and changes
\* neither the registry, the router nor the state of any channel.
C16_DestroyTwice ==
  [][\A c \in Chans :
       (Destroyed(c) /\ Destroy(c))
         => /\ raised' = ""
            /\ UNCHANGED <<s_boundChans, s_transIds, listening, cfg, regTbl, outTbl, inTbl,
                           ready, pendingQueue>>]_vars
\* what the second destroy() does change: nothing
C16_DestroyTwiceChangesNothing ==
  [][\A c \in Chans :
       (Destroyed(c) /\ Destroy(c))
         => UNCHANGED <<s_boundChans, s_transIds, listening, cfg, regTbl, outTbl, inTbl,
                        ready, pendingQueue>>]_vars

\* --------------------------------------------------------------------- C17
\* the oldest message event of window w is a Request, dispatched to channel c, for a
\* method the channel has no handler bound for
UnboundRequest(w, c) ==
  /\ Dispatching(w, c)
  /\ IdTruthy(Head(inbox[w]).data.id) /\ Head(inbox[w]).data.method # <<>>
  /\ MsgMeth(Head(inbox[w]).data.method) \notin DOMAIN regTbl[c]
Ignored(c) ==
  /\ inTbl'[c] = inTbl[c] /\ outTbl'[c] = outTbl[c] /\ regTbl'[c] = regTbl[c]
  /\ ready'[c] = ready[c] /\ pendingQueue'[c] = pendingQueue[c]
  /\ log'[c] = log[c]
  /\ inbox'[cfg[c].window] = inbox[cfg[c].window]
  /\ transObjs' = transObjs /\ raised' = ""
\* C17: a Request for a method without a bound handler opens no transaction, sends
\* and queues nothing and changes nothing else of the channel.
C17_UnboundIgnored ==
  [][\A w \in Win, c \in Chans : UnboundRequest(w, c) => Ignored(c)]_vars
\* the same for the method names that are not properties of Object.prototype
C17_UnboundIgnoredOwnNames ==
  [][\A w \in Win, c \in Chans :
       (/\ UnboundRequest(w, c)
        /\ MsgMeth(Head(inbox[w]).data.method)[1] \notin InheritedFns \cup InheritedObjs)
         => Ignored(c)]_vars

\* --------------------------------------------------------------------- C18
\* ev logs the production of a message: a Request, Notification, Response or
\* ErrorResponse
Produces(ev) == ev.ev \in {"call", "notify", "t.complete", "t.error"}
\* the step put the message ev produces at the end of the queue of c
Queued(c, ev) ==
  LET n == Len(pendingQueue[c])
      last == pendingQueue'[c][n + 1]
  IN  /\ Len(pendingQueue'[c]) = n + 1
      /\ SubSeq(pendingQueue'[c], 1, n) = pendingQueue[c]
      /\ last.id = ev.id
      /\ ev.ev \in {"call", "notify"} => Wire(last) = Wire(ev.msg)
      /\ ev.ev = "t.complete" => last.method = <<>> /\ last.result = ev.b
      /\ ev.ev = "t.error" => last.method = <<>> /\ last.error = ev.b
\* C18: in a step that leaves a channel not ready the channel posts nothing but the
\* forced __ready ping of a child, and every Request, Notification, Response and
\* ErrorResponse it produces is put at the end of the pending queue.
C18_QuietWhileNotReady ==
  [][\A c \in Chans :
       (~ready[c] /\ ~ready'[c]) =>
         \A k \in DOMAIN Added(c) :
           /\ Added(c)[k].ev = "post" =>
                /\ Added(c)[k].msg = Wire(ReadyMsg(c, "ping"))
                /\ cfg[c].type = "child"
           /\ Produces(Added(c)[k]) => Queued(c, Added(c)[k])]_vars
\* a channel that is not ready holds a Response and an ErrorResponse in its queue,
\* another one a Request and a Notification, and neither posted any of them
C18_Witness ==
  \E c1 \in Chans, c2 \in Chans :
    /\ ~ready[c1] /\ ~ready[c2]
    /\ \E i \in DOMAIN pendingQueue[c1], j \in DOMAIN pendingQueue[c1] :
         /\ pendingQueue[c1][i].method = <<>> /\ pendingQueue[c1][i].result = V1
         /\ pendingQueue[c1][j].method = <<>> /\ Truthy(pendingQueue[c1][j].error)
    /\ \E i \in DOMAIN pendingQueue[c2], j \in DOMAIN pendingQueue[c2] :
         /\ pendingQueue[c2][i].method # <<>> /\ IdTruthy(pendingQueue[c2][i].id)
         /\ pendingQueue[c2][j].method # <<>> /\ pendingQueue[c2][j].id = NoId
    /\ \A k \in DOMAIN log[c1] : log[c1][k].ev # "post"
    /\ \A k \in DOMAIN log[c2] : log[c2][k].ev # "post"

\* --------------------------------------------------------------------- C19
\* this step is s_onMessage of window w handling a CallbackInvocation
CallbackEvent(w) ==
  /\ Delivering(w)
  /\ IdTruthy(Head(inbox[w]).data.id) /\ Head(inbox[w]).data.method = <<>>
  /\ Head(inbox[w]).data.callback # ""
\* its id is an outstanding request of channel c and its path one of the request's
KnownCallback(w, c) ==
  /\ Route(w, Head(inbox[w])) = c
  /\ Head(inbox[w]).data.id \in DOMAIN outTbl[c]
  /\ Head(inbox[w]).data.callback \in outTbl[c][Head(inbox[w]).data.id].callbacks
CallbackRan(c, m) ==
  Added(c) = <<Ev("callback", m.id, NoMsg, Str(m.callback), m.params)>>
NoTableChanged ==
  /\ log' = log /\ outTbl' = outTbl /\ inTbl' = inTbl /\ s_transIds' = s_transIds
  /\ pendingQueue' = pendingQueue /\ regTbl' = regTbl
\* C19: a CallbackInvocation with an outstanding id and a path of that request
\* invokes the caller's function with the params and leaves the request in place;
\* one with an unknown id or path invokes nothing, raises nothing, changes no table.
C19_CallbackDispatch ==
  [][\A w \in Win :
       CallbackEvent(w) =>
         IF \E c \in Chans : KnownCallback(w, c)
         THEN \E c \in Chans :
                /\ KnownCallback(w, c) /\ CallbackRan(c, Head(inbox[w]).data)
                /\ outTbl' = outTbl /\ s_transIds' = s_transIds /\ raised' = ""
         ELSE NoTableChanged /\ raised' = ""]_vars
\* the same for the paths that are not properties of Object.prototype
C19_CallbackDispatchOwnPaths ==
  [][\A w \in Win :
       (CallbackEvent(w) /\ Head(inbox[w]).data.callback \notin InheritedFns \cup InheritedObjs)
         => IF \E c \in Chans : KnownCallback(w, c)
            THEN \E c \in Chans :
                   /\ KnownCallback(w, c) /\ CallbackRan(c, Head(inbox[w]).data)
                   /\ outTbl' = outTbl /\ s_transIds' = s_transIds /\ raised' = ""
            ELSE NoTableChanged /\ raised' = ""]_vars

\* ---------------------------------------------------------------------- C20
\* what a call can change: the id allocator, the outstanding-request tables, the
\* response router, the queues, the armed timers and what has been transmitted
CallState == <<s_curTranId, outTbl, s_transIds, pendingQueue, timers, inbox, log>>
\* the Errors call() throws on its argument
CallErrors ==
  {"missing arguments to call function", "'method' argument to call must be string",
   "'success' callback missing from call", "params cannot be a recursive data structure"}
\* C20: a call with no method or a method that is not a string, with no success or
\* a success that is not a function, or with recursive params raises, and the id
\* allocator, the outstanding-request table, the response router and the queue are
\* as before, no timer is armed and no message is transmitted.
C20_RejectedCallChangesNothing ==
  [][\A c \in Chans, a \in RejectCallArgs :
       Call(c, a) => (raised' \in CallErrors /\ UNCHANGED CallState)]_vars
\* a call with recursive params has been rejected while an earlier call with a
\* timeout is outstanding
C20_Witness ==
  /\ raised = "params cannot be a recursive data structure"
  /\ timers # {}
  /\ \E c \in 1..nChans : DOMAIN outTbl[c] # {}

\* ---------------------------------------------------------------------- C21
\* in this step a handler of channel c called destroy() on c
SelfDestroys(c) ==
  \E k \in Len(log[c]) + 1..Len(log'[c]) :
    log'[c][k].ev = "destroy" /\ log'[c][k].a = Str("handler")
\* the places of the registry of window w that hold channel c
Bindings(tbl, c) ==
  {<<o, sc>> \in OriginKeys \X ScopeKeys :
     \E i \in DOMAIN tbl[o][sc] : tbl[o][sc][i].handler = c /\ tbl[o][sc][i].win = cfg[c].window}
\* the dispatch ended without an exception, c's binding is gone and every other
\* channel has its binding and its tables
CleanSelfDestroy(c) ==
  /\ raised' = ""
  /\ Bindings(s_boundChans'[cfg[c].home], c) = {}
  /\ \A d \in (1..nChans) \ {c} :
       /\ \A w \in Win : Bindings(s_boundChans'[w], d) = Bindings(s_boundChans[w], d)
       /\ regTbl'[d] = regTbl[d] /\ outTbl'[d] = outTbl[d] /\ inTbl'[d] = inTbl[d]
\* C21: when a handler of a Request or of a Notification calls destroy() on its own
\* channel, the dispatch ends without an exception leaving the message listener, the
\* channel's binding is gone from the registry and every other channel's binding
\* and tables are unchanged.
C21_SelfDestroy ==
  [][\A c \in Chans : SelfDestroys(c) => CleanSelfDestroy(c)]_vars
\* the same for the handlers of Notifications alone
C21_SelfDestroyNotification ==
  [][\A c \in Chans :
       (SelfDestroys(c) /\ Head(inbox[cfg[c].home]).data.id = NoId) => CleanSelfDestroy(c)]_vars

\* ---------------------------------------------------------------------- C22
\* this step is channel c of window w receiving a Response or an ErrorResponse
\* that carries the id of one of its outstanding requests
ResponseEvent(w, c) ==
  /\ Dispatching(w, c)
  /\ Head(inbox[w]).data.method = <<>> /\ Head(inbox[w]).data.callback = ""
  /\ IdTruthy(Head(inbox[w]).data.id)
  /\ Head(inbox[w]).data.id \in DOMAIN outTbl[c]
\* the request is gone from the outstanding table and from the router, success
\* having been invoked for a Response
Resolved(c, m) ==
  /\ m.id \notin DOMAIN outTbl'[c]
  /\ m.id \notin DOMAIN s_transIds'[cfg[c].home]
  /\ ~Truthy(m.error) => Added(c) = <<Ev("success", m.id, NoMsg, m.result, Undefined)>>
\* C22: an ErrorResponse with the id of an outstanding request removes the request
\* from the channel's outstanding table and from the transaction router, and a
\* Response does so after invoking success, whether or not the call gave an error
\* callback.
C22_ResponseRemoves ==
  [][\A w \in Win, c \in Chans :
       ResponseEvent(w, c) => Resolved(c, Head(inbox[w]).data)]_vars
\* the same for Responses, and for ErrorResponses of calls that gave an error callback
C22_ResponseRemovesWithError ==
  [][\A w \in Win, c \in Chans :
       (/\ ResponseEvent(w, c)
        /\ Truthy(Head(inbox[w]).data.error) => outTbl[c][Head(inbox[w]).data.id].hasError)
         => Resolved(c, Head(inbox[w]).data)]_vars

\* ---------------------------------------------------------------------- C23
\* in this step channel c hands a message to the transport and the message reaches
\* the inbox of c's window
Transmits(c) ==
  /\ \E k \in DOMAIN Added(c) : Added(c)[k].ev = "post"
  /\ Len(inbox'[cfg[c].window]) > Len(inbox[cfg[c].window])
\* the call with this id was issued by c before c was destroyed
IssuedBefore(c, id) ==
  \E i, j \in DOMAIN log[c] :
    i < j /\ log[c][i].ev = "call" /\ log[c][i].id = id /\ log[c][j].ev = "destroy"
\* c transmits nothing, stays not ready, and invokes no handler and no function of a
\* call issued before the destroy
Inert(c) ==
  /\ ~Transmits(c)
  /\ ~ready'[c]
  /\ \A k \in Invocations(Added(c)) :
       Added(c)[k].ev # "handler" /\ ~IssuedBefore(c, Added(c)[k].id)
\* C23: after destroy() a channel never transmits a message again, the pending
\* __ready ping of a child included, never becomes ready again and never invokes a
\* handler or a success, error or callback function.
C23_Inert ==
  [][\A c \in Chans : Destroyed(c) => Inert(c)]_vars
\* the same but for the ping of a child that was pending when it was destroyed
C23_InertButPing ==
  [][\A c \in Chans : (Destroyed(c) /\ c \notin pingTimer) => Inert(c)]_vars

\* ---------------------------------------------------------------------- C24
\* C24: whatever the order of the timeout, the Responses and ErrorResponses, late
\* and repeated ones included, and destroy(), the success and error functions of a
\* call are invoked at most once in total.
C24_AtMostOnce ==
  \A c \in Chans : \A i \in DOMAIN log[c] :
    log[c][i].ev = "call" => Cardinality(Resolutions(c, log[c][i].id)) <= 1
\* the same for the calls whose success and error functions return
C24_AtMostOnceReturning ==
  \A c \in Chans : \A i \in DOMAIN log[c] :
    (log[c][i].ev = "call" /\ ~log[c][i].a.throws)
      => Cardinality(Resolutions(c, log[c][i].id)) <= 1

\* ---------------------------------------------------------------------- C25
\* ch is a child and pa a channel of the other side that is no child, each bound to
\* the other's window with the same scope and an origin that matches
Sides(ch, pa) ==
  /\ ch \in 1..nChans /\ pa \in 1..nChans
  /\ cfg[ch].type = "child" /\ cfg[pa].type # "child"
  /\ cfg[ch].window = cfg[pa].home /\ cfg[pa].window = cfg[ch].home
  /\ cfg[ch].scope = cfg[pa].scope
  /\ cfg[ch].origin \in {"*", OriginOf(cfg[pa].home)}
  /\ cfg[pa].origin \in {"*", OriginOf(cfg[ch].home)}
\* the ping of ch is the message event being delivered next to the window of pa
PingArrives(ch, pa) ==
  /\ Sides(ch, pa)
  /\ inbox[cfg[pa].home] # <<>>
  /\ Head(inbox[cfg[pa].home]) = Envelope(ch, ReadyMsg(ch, "ping"))
ReadyRuns(c) == {k \in DOMAIN log[c] : log[c][k] = ObserverEv}
Pongs(c) == {k \in DOMAIN log[c] : log[c][k] = PostEv(ReadyMsg(c, "pong"))}
ShakenHands(ch, pa) ==
  /\ ready[ch] /\ ready[pa]
  /\ Cardinality(Pongs(pa)) = 1 /\ Cardinality(Pongs(ch)) = 0
  /\ Cardinality(ReadyRuns(ch)) = 1 /\ Cardinality(ReadyRuns(pa)) = 1
\* no channel runs its __ready handler and observer, or sends a pong, twice
NeverTwice == \A c \in Chans : Cardinality(ReadyRuns(c)) <= 1 /\ Cardinality(Pongs(c)) <= 1
\* C25: when the ping of a child is delivered while the channel of the other side,
\* of the same scope and a matching origin and no child, is built, both channels
\* become ready, the receiver sends one pong and each side runs its __ready handler
\* and its onReady observer once.
C25_Handshake ==
  /\ []NeverTwice
  /\ \A ch \in Chans, pa \in Chans : PingArrives(ch, pa) ~> ShakenHands(ch, pa)
\* the same for the channels that have a scope
C25_HandshakeScoped ==
  /\ []NeverTwice
  /\ \A ch \in Chans, pa \in Chans :
       (PingArrives(ch, pa) /\ cfg[ch].scope = <<"a">>) ~> ShakenHands(ch, pa)
====
